---- MODULE Spec2Model ----
(***************************************************************************)
(* Alpha-beta move selection of chess_engine.py (evaluate_board,          *)
(* alphabeta, select_move, play_console) and its use from chess_gui.py.   *)
(*                                                                         *)
(* The rules engine (the `chess` package) is an external collaborator.    *)
(* A chess.Board is modelled by its move stack: the position is the       *)
(* sequence of moves played from the initial position, push appends a     *)
(* move and pop removes the last one.  What the rules engine answers for  *)
(* a position (legal moves in enumeration order, capture flags, terminal  *)
(* status, the material/piece-square/mobility sum) is a function of the   *)
(* position drawn from a bounded family of finite game trees indexed by   *)
(* `seed`.                                                                 *)
(***************************************************************************)
EXTENDS Integers, Sequences, FiniteSets, TLC

(* ------------------------------ bounds -------------------------------- *)
NumSeeds == 64
MaxMoves == 3
MaxPly   == 4
MaxDepth == 3
MaxVal   == 2

(* ------------------------- program constants -------------------------- *)
MATE == 999999
INF  == 1000000000
ENGINE_DEPTH == 3

WHITE == TRUE
BLACK == FALSE
None  == 0

Seeds  == 0 .. (NumSeeds - 1)
Moves  == 1 .. MaxMoves
Depths == (0 - 1) .. MaxDepth

VARIABLES
    seed,      \* which game tree the rules engine plays on
    board,     \* chess.Board: the move stack from the initial position
    stack,     \* call stack of alphabeta, innermost frame last
    ret,       \* value returned by the alphabeta call that finished last
    cpc,       \* caller of select_move: "idle" or "searching"
    req,       \* the select_move call in flight or finished last
    result,    \* what select_move returned: (move, eval_score)
    npush,     \* board.push calls made by the search since it was called
    npop,      \* board.pop calls made by the search since it was called
    neval,     \* evaluate_board calls since select_move was called
    ncall,     \* alphabeta invocations since select_move was called
    engine,    \* the search that runs: "external" (chess_engine) or "builtin"
    move_history,    \* run_gui: the list of the moves played
    engine_on,       \* run_gui: the engine toggle
    engine_depth,    \* run_gui: the depth handed to the engine
    engine_thinking, \* run_gui: flag the worker sets under engine_lock
    wpc,       \* engine_worker thread: "off" when no worker is alive
    mpc,       \* main event loop: "idle" between two handlers
    mtmp,      \* the move the handler in progress is playing
    nevents,   \* user events (clicks, keys) handled so far
    nworkers,  \* run_gui: engine_worker threads that are alive
    heap,            \* evaluate_board: the board objects, the caller's and the copy
    board_copy,      \* evaluate_board: the object the local board_copy names
    epc,             \* evaluate_board: position in the function
    evaluator,       \* which evaluator runs: evaluate_board or evaluate_simple
    material,        \* evaluate_board: local material
    pst_score,       \* evaluate_board: local pst_score
    white_moves,     \* evaluate_board: local white_moves
    black_moves,     \* evaluate_board: local black_moves
    static_score,    \* the score evaluate_board returned
    board_before     \* the caller's board when evaluate_board was called

searchVars == <<stack, ret, cpc, req, result, npush, npop, neval, ncall, engine>>
guiVars == <<move_history, engine_on, engine_depth, engine_thinking, wpc, mpc, mtmp,
            nevents, nworkers>>
evalLocals == <<board_copy, evaluator, material, pst_score, white_moves, black_moves,
                static_score, board_before>>
evalVars == <<heap, epc, evalLocals>>
vars == <<seed, board, searchVars, guiVars, evalVars>>

(* ------------------- the rules engine (chess.Board) ------------------- *)
RECURSIVE Key(_)
Key(b) ==
    IF b = <<>> THEN (seed * 37 + 11) % 1009
    ELSE (Key(SubSeq(b, 1, Len(b) - 1)) * 31 + b[Len(b)] * 17 + 7) % 1009

\* board.turn: White moves at even plies, Black at odd plies
turn(b) == IF Len(b) % 2 = 0 THEN WHITE ELSE BLACK

\* terminal status of the position: "checkmate", "stalemate", "draw"
\* (game over by another rule, legal moves may exist) or "play"
Status(b) ==
    LET k == Key(b) % 16 IN
    IF Len(b) >= MaxPly
    THEN (IF k < 5 THEN "checkmate" ELSE IF k < 8 THEN "stalemate" ELSE "draw")
    ELSE (IF k < 2 THEN "checkmate"
          ELSE IF k = 2 THEN "stalemate"
          ELSE IF k = 3 THEN "draw" ELSE "play")

is_checkmate(b) == Status(b) = "checkmate"
is_stalemate(b) == Status(b) = "stalemate"
is_game_over(b) == Status(b) # "play"

\* list(board.legal_moves): the legal moves in the engine's enumeration order
legal_moves(b) ==
    IF Status(b) \in {"checkmate", "stalemate"} THEN <<>>
    ELSE [i \in 1 .. (1 + ((Key(b) \div 16) % MaxMoves)) |-> i]

\* board.is_capture(m)
is_capture(b, m) == (((Key(b) \div 5) + m * (1 + (Key(b) % 3))) % 2) = 0

\* material + mobility_score of a position that is no mate or stalemate
MaterialMobility(b) == ((Key(b) \div 3) % (2 * MaxVal + 1)) - MaxVal

\* pst_score: the piece-square sum of the position
PstScore(b) == ((Key(b) \div 7) % 3) - 1

\* mutant: the undo takes two moves off the stack
pop_two(b) == SubSeq(b, 1, Len(b) - 2)

\* mutant: the undo after the recursive call is lost
pop_lost(b) == b

push(b, m) == Append(b, m)
pop(b)     == SubSeq(b, 1, Len(b) - 1)

(* --------------------------- evaluate_board --------------------------- *)
\* mutant: the sign of the checkmate score is taken from the wrong side
evaluate_board_wrong_sign(b) ==
    IF is_checkmate(b) THEN (IF turn(b) = WHITE THEN MATE ELSE 0 - MATE)
    ELSE IF is_stalemate(b) THEN 0
    ELSE MaterialMobility(b) + PstScore(b)

\* mutant: the stalemate test is missing
evaluate_board_no_stalemate(b) ==
    IF is_checkmate(b) THEN (IF turn(b) = WHITE THEN 0 - MATE ELSE MATE)
    ELSE MaterialMobility(b) + PstScore(b)

evaluate_board(b) ==
    IF is_checkmate(b) THEN (IF turn(b) = WHITE THEN 0 - MATE ELSE MATE)
    ELSE IF is_stalemate(b) THEN 0
    ELSE MaterialMobility(b) + PstScore(b)

\* evaluate_simple of chess_gui.py: the same with PST_SIMPLE, which is all zero
evaluate_simple(b) ==
    IF is_checkmate(b) THEN (IF turn(b) = WHITE THEN 0 - MATE ELSE MATE)
    ELSE IF is_stalemate(b) THEN 0
    ELSE MaterialMobility(b)

(* ============ evaluate_board on piece placements (chess.Board) ========= *)
(* The evaluator is followed here on the board itself: 64 squares, a side  *)
(* to move and the move stack.  Moves are generated for pawns (pushes and  *)
(* captures), knights, bishops, rooks, queens and kings; castling, en      *)
(* passant and promotion need more plies from the starting position than   *)
(* are played here.                                                        *)
MaxEvalPly == 1

PAWN   == 1
KNIGHT == 2
BISHOP == 3
ROOK   == 4
QUEEN  == 5
KING   == 6

Squares == 0 .. 63
square_file(sq) == sq % 8
square_rank(sq) == sq \div 8
square(f, r) == r * 8 + f

\* mutant: the Black lookup is not mirrored
square_mirror_identity(sq) == sq

\* chess.square_mirror(sq): sq ^ 0x38, the square mirrored vertically
square_mirror(sq) == square(square_file(sq), 7 - square_rank(sq))

\* mutant: a queen is worth a hundred times more
PIECE_VALUES_queen_heavy(pt) ==
    CASE pt = PAWN -> 100 [] pt = KNIGHT -> 320 [] pt = BISHOP -> 330
      [] pt = ROOK -> 500 [] pt = QUEEN -> 90000 [] pt = KING -> 20000

PIECE_VALUES(pt) ==
    CASE pt = PAWN -> 100 [] pt = KNIGHT -> 320 [] pt = BISHOP -> 330
      [] pt = ROOK -> 500 [] pt = QUEEN -> 900 [] pt = KING -> 20000

PST_PAWN ==
    <<0, 0, 0, 0, 0, 0, 0, 0,
      5, 10, 10, (0 - 20), (0 - 20), 10, 10, 5,
      5, (0 - 5), (0 - 10), 0, 0, (0 - 10), (0 - 5), 5,
      0, 0, 0, 20, 20, 0, 0, 0,
      5, 5, 10, 25, 25, 10, 5, 5,
      10, 10, 20, 30, 30, 20, 10, 10,
      50, 50, 50, 50, 50, 50, 50, 50,
      0, 0, 0, 0, 0, 0, 0, 0>>

PST_KNIGHT ==
    <<(0 - 50), (0 - 40), (0 - 30), (0 - 30), (0 - 30), (0 - 30), (0 - 40), (0 - 50),
      (0 - 40), (0 - 20), 0, 5, 5, 0, (0 - 20), (0 - 40),
      (0 - 30), 5, 10, 15, 15, 10, 5, (0 - 30),
      (0 - 30), 0, 15, 20, 20, 15, 0, (0 - 30),
      (0 - 30), 5, 15, 20, 20, 15, 5, (0 - 30),
      (0 - 30), 0, 10, 15, 15, 10, 0, (0 - 30),
      (0 - 40), (0 - 20), 0, 0, 0, 0, (0 - 20), (0 - 40),
      (0 - 50), (0 - 90), (0 - 30), (0 - 30), (0 - 30), (0 - 30), (0 - 90), (0 - 50)>>

PST_BISHOP ==
    <<(0 - 20), (0 - 10), (0 - 10), (0 - 10), (0 - 10), (0 - 10), (0 - 10), (0 - 20),
      (0 - 10), 5, 0, 0, 0, 0, 5, (0 - 10),
      (0 - 10), 10, 10, 10, 10, 10, 10, (0 - 10),
      (0 - 10), 0, 10, 10, 10, 10, 0, (0 - 10),
      (0 - 10), 5, 5, 10, 10, 5, 5, (0 - 10),
      (0 - 10), 0, 5, 10, 10, 5, 0, (0 - 10),
      (0 - 10), 0, 0, 0, 0, 0, 0, (0 - 10),
      (0 - 20), (0 - 10), (0 - 10), (0 - 10), (0 - 10), (0 - 10), (0 - 10), (0 - 20)>>

PST_ROOK ==
    <<0, 0, 5, 10, 10, 5, 0, 0,
      0, 0, 5, 10, 10, 5, 0, 0,
      0, 0, 5, 10, 10, 5, 0, 0,
      0, 0, 5, 10, 10, 5, 0, 0,
      0, 0, 5, 10, 10, 5, 0, 0,
      0, 0, 5, 10, 10, 5, 0, 0,
      25, 25, 25, 25, 25, 25, 25, 25,
      0, 0, 5, 10, 10, 5, 0, 0>>

PST_QUEEN ==
    <<(0 - 20), (0 - 10), (0 - 10), (0 - 5), (0 - 5), (0 - 10), (0 - 10), (0 - 20),
      (0 - 10), 0, 5, 0, 0, 0, 0, (0 - 10),
      (0 - 10), 5, 5, 5, 5, 5, 0, (0 - 10),
      (0 - 5), 0, 5, 5, 5, 5, 0, (0 - 5),
      0, 0, 5, 5, 5, 5, 0, (0 - 5),
      (0 - 10), 0, 5, 5, 5, 5, 0, (0 - 10),
      (0 - 10), 0, 0, 0, 0, 0, 0, (0 - 10),
      (0 - 20), (0 - 10), (0 - 10), (0 - 5), (0 - 5), (0 - 10), (0 - 10), (0 - 20)>>

PST_KING ==
    <<(0 - 30), (0 - 40), (0 - 40), (0 - 50), (0 - 50), (0 - 40), (0 - 40), (0 - 30),
      (0 - 30), (0 - 40), (0 - 40), (0 - 50), (0 - 50), (0 - 40), (0 - 40), (0 - 30),
      (0 - 30), (0 - 40), (0 - 40), (0 - 50), (0 - 50), (0 - 40), (0 - 40), (0 - 30),
      (0 - 30), (0 - 40), (0 - 40), (0 - 50), (0 - 50), (0 - 40), (0 - 40), (0 - 30),
      (0 - 20), (0 - 30), (0 - 30), (0 - 40), (0 - 40), (0 - 30), (0 - 30), (0 - 20),
      (0 - 10), (0 - 20), (0 - 20), (0 - 20), (0 - 20), (0 - 20), (0 - 20), (0 - 10),
      20, 20, 0, 0, 0, 0, 20, 20,
      20, 30, 10, 0, 0, 10, 30, 20>>

PST(pt) ==
    CASE pt = PAWN -> PST_PAWN [] pt = KNIGHT -> PST_KNIGHT [] pt = BISHOP -> PST_BISHOP
      [] pt = ROOK -> PST_ROOK [] pt = QUEEN -> PST_QUEEN [] pt = KING -> PST_KING

\* PST_SIMPLE of chess_gui.py: [0]*64 for every piece type
PST_SIMPLE(pt) == [i \in 1 .. 64 |-> 0]

\* a placement maps a square to 0 (empty), +pt (White piece) or -pt (Black piece)
Abs(x) == IF x < 0 THEN 0 - x ELSE x
Piece(pt, color) == IF color = WHITE THEN pt ELSE 0 - pt
IsOwn(pl, sq, color) == IF color = WHITE THEN pl[sq] > 0 ELSE pl[sq] < 0
IsEnemy(pl, sq, color) == IsOwn(pl, sq, ~color)
OnBoard(f, r) == f \in 0 .. 7 /\ r \in 0 .. 7

\* board.pieces(piece_type, color): the squares holding such a piece
pieces(b, pt, color) == {sq \in Squares : b.placement[sq] = Piece(pt, color)}

KnightSteps == {<<1, 2>>, <<2, 1>>, <<2, 0 - 1>>, <<1, 0 - 2>>,
                <<0 - 1, 0 - 2>>, <<0 - 2, 0 - 1>>, <<0 - 2, 1>>, <<0 - 1, 2>>}
BishopDirs  == {<<1, 1>>, <<1, 0 - 1>>, <<0 - 1, 1>>, <<0 - 1, 0 - 1>>}
RookDirs    == {<<1, 0>>, <<0 - 1, 0>>, <<0, 1>>, <<0, 0 - 1>>}
KingSteps   == BishopDirs \cup RookDirs

\* squares a knight or king on sq can go to
StepTargets(pl, sq, color, steps) ==
    LET f == square_file(sq)
        r == square_rank(sq)
        ok == {d \in steps : /\ OnBoard(f + d[1], r + d[2])
                             /\ ~IsOwn(pl, square(f + d[1], r + d[2]), color)}
    IN  {square(f + d[1], r + d[2]) : d \in ok}

\* squares a bishop, rook or queen on sq can go to along the directions dirs
SlideTargets(pl, sq, color, dirs) ==
    LET f == square_file(sq)
        r == square_rank(sq)
        ok == {x \in dirs \X (1 .. 7) :
                 /\ OnBoard(f + x[2] * x[1][1], r + x[2] * x[1][2])
                 /\ ~IsOwn(pl, square(f + x[2] * x[1][1], r + x[2] * x[1][2]), color)
                 /\ \A j \in 1 .. (x[2] - 1) :
                        pl[square(f + j * x[1][1], r + j * x[1][2])] = 0}
    IN  {square(f + x[2] * x[1][1], r + x[2] * x[1][2]) : x \in ok}

\* squares a pawn on sq can go to: one step, two steps from its home rank,
\* a capture on either diagonal
PawnTargets(pl, sq, color) ==
    LET f    == square_file(sq)
        r    == square_rank(sq)
        dr   == IF color = WHITE THEN 1 ELSE 0 - 1
        home == IF color = WHITE THEN 1 ELSE 6
        one  == IF OnBoard(f, r + dr) /\ pl[square(f, r + dr)] = 0
                THEN {square(f, r + dr)} ELSE {}
        two  == IF r = home /\ one # {} /\ pl[square(f, r + 2 * dr)] = 0
                THEN {square(f, r + 2 * dr)} ELSE {}
        caps == {square(f + df, r + dr) :
                    df \in {d \in {0 - 1, 1} : /\ OnBoard(f + d, r + dr)
                                               /\ IsEnemy(pl, square(f + d, r + dr), color)}}
    IN  one \cup two \cup caps

Targets(pl, sq, color) ==
    LET pt == Abs(pl[sq]) IN
    CASE pt = PAWN   -> PawnTargets(pl, sq, color)
      [] pt = KNIGHT -> StepTargets(pl, sq, color, KnightSteps)
      [] pt = BISHOP -> SlideTargets(pl, sq, color, BishopDirs)
      [] pt = ROOK   -> SlideTargets(pl, sq, color, RookDirs)
      [] pt = QUEEN  -> SlideTargets(pl, sq, color, BishopDirs \cup RookDirs)
      [] pt = KING   -> StepTargets(pl, sq, color, KingSteps)

\* the moves <<from, to>> of the side `color`, king safety not regarded
PseudoLegal(pl, color) ==
    UNION {{<<sq, t>> : t \in Targets(pl, sq, color)} :
              sq \in {s \in Squares : IsOwn(pl, s, color)}}

MovePiece(pl, mv) == [pl EXCEPT ![mv[2]] = pl[mv[1]], ![mv[1]] = 0]

\* the king of `color` stands on a square the other side can move to
InCheck(pl, color) ==
    \E sq \in {s \in Squares : IsOwn(pl, s, ~color)} :
        \E t \in Targets(pl, sq, ~color) : pl[t] = Piece(KING, color)

\* board.legal_moves, as a set: the moves of the side to move that do not
\* leave its own king in check
LegalMoveSet(b) ==
    {mv \in PseudoLegal(b.placement, b.turn) :
        ~InCheck(MovePiece(b.placement, mv), b.turn)}

\* board.is_checkmate() / board.is_stalemate()
IsCheckmateAt(b) == InCheck(b.placement, b.turn) /\ LegalMoveSet(b) = {}
IsStalemateAt(b) == ~InCheck(b.placement, b.turn) /\ LegalMoveSet(b) = {}

\* board.push(move): the piece moves, the turn passes, the move is stacked
PushMove(b, mv) ==
    [placement |-> MovePiece(b.placement, mv), turn |-> ~b.turn,
     move_stack |-> Append(b.move_stack, mv)]

RECURSIVE PushAll(_, _)
PushAll(b, mvs) ==
    IF mvs = <<>> THEN b ELSE PushAll(PushMove(b, mvs[1]), SubSeq(mvs, 2, Len(mvs)))

BackRank == <<ROOK, KNIGHT, BISHOP, QUEEN, KING, BISHOP, KNIGHT, ROOK>>

\* chess.Board(): the standard starting position
StartBoard ==
    [placement |-> [sq \in Squares |->
                      CASE square_rank(sq) = 0 -> BackRank[square_file(sq) + 1]
                        [] square_rank(sq) = 1 -> PAWN
                        [] square_rank(sq) = 6 -> 0 - PAWN
                        [] square_rank(sq) = 7 -> 0 - BackRank[square_file(sq) + 1]
                        [] OTHER -> 0],
     turn |-> WHITE, move_stack |-> <<>>]

\* 1. f3 e5 2. g4 Qh4#: White is checkmated
FoolsMateBoard ==
    PushAll(StartBoard, <<<<13, 21>>, <<52, 36>>, <<14, 30>>, <<59, 31>>>>)

\* 1. e4 e5 2. Bc4 Nc6 3. Qh5 Nf6 4. Qxf7#: Black is checkmated
ScholarsMateBoard ==
    PushAll(StartBoard, <<<<12, 28>>, <<52, 36>>, <<5, 26>>, <<57, 42>>,
                          <<3, 39>>, <<62, 45>>, <<39, 53>>>>)

\* White Kf7, Qg6 against Black Kh8, Black to move: stalemate
StalemateBoard ==
    [placement |-> [sq \in Squares |->
                      CASE sq = 53 -> KING [] sq = 46 -> QUEEN
                        [] sq = 63 -> 0 - KING [] OTHER -> 0],
     turn |-> BLACK, move_stack |-> <<>>]

NoBoard == [placement |-> [sq \in Squares |-> 0], turn |-> WHITE, move_stack |-> <<>>]

\* White Ka1 and fifteen queens on the rest of a1 .. d4 against Black Kh8,
\* White to move: the largest material lead sixteen pieces can hold
QueensBoard ==
    [placement |-> [sq \in Squares |->
                      CASE sq = 0 -> KING
                        [] sq # 0 /\ square_file(sq) <= 3 /\ square_rank(sq) <= 3 -> QUEEN
                        [] sq = 63 -> 0 - KING
                        [] OTHER -> 0],
     turn |-> WHITE, move_stack |-> <<>>]

\* the same with the colours exchanged and the board mirrored, Black to move
QueensBoardBlack ==
    [placement |-> [sq \in Squares |-> 0 - QueensBoard.placement[square_mirror(sq)]],
     turn |-> BLACK, move_stack |-> <<>>]

EvalInputs == {StartBoard, FoolsMateBoard, ScholarsMateBoard, StalemateBoard,
               QueensBoard, QueensBoardBlack}
Evaluators == {"evaluate_board", "evaluate_simple"}

\* material, line 95-100: += for White, -= for Black, over the squares 0 .. n
RECURSIVE MaterialSum(_, _)
MaterialSum(pl, n) ==
    IF n < 0 THEN 0
    ELSE MaterialSum(pl, n - 1)
         + (IF pl[n] > 0 THEN PIECE_VALUES(pl[n])
            ELSE IF pl[n] < 0 THEN 0 - PIECE_VALUES(0 - pl[n]) ELSE 0)

\* the table the evaluator reads
Table(ev, pt) == IF ev = "evaluate_board" THEN PST(pt) ELSE PST_SIMPLE(pt)

\* pst_score, line 98 and 102: PST[piece_type][sq] for White,
\* PST[piece_type][chess.square_mirror(sq)] for Black
RECURSIVE PstSum(_, _, _)
PstSum(ev, pl, n) ==
    IF n < 0 THEN 0
    ELSE PstSum(ev, pl, n - 1)
         + (IF pl[n] > 0 THEN Table(ev, pl[n])[n + 1]
            ELSE IF pl[n] < 0 THEN 0 - Table(ev, 0 - pl[n])[square_mirror(n) + 1] ELSE 0)

\* mutant: no copy is taken, board_copy is the caller's board
CopyRef_alias(ref) == ref

\* board.copy(): the object board_copy names, a new board
CopyRef(ref) == "copy"

\* len(list(board_copy.legal_moves)) after board_copy.turn = color
MobilityOf(b, color) == Cardinality(LegalMoveSet([b EXCEPT !.turn = color]))

\* evaluate_board(board) / evaluate_simple(board) is called
EvalCall(ev) ==
    /\ epc \in {"idle", "done"}
    /\ evaluator' = ev
    /\ board_before' = heap.board
    /\ board_copy' = "none"
    /\ material' = 0 /\ pst_score' = 0 /\ white_moves' = 0 /\ black_moves' = 0
    /\ static_score' = 0
    /\ epc' = "terminal"
    /\ UNCHANGED <<seed, board, searchVars, guiVars, heap>>

\* line 87-89: if board.is_checkmate(): return -999999 if board.turn else 999999
EvalCheckmate ==
    /\ epc = "terminal"
    /\ IsCheckmateAt(heap.board)
    /\ static_score' = (IF heap.board.turn = WHITE THEN 0 - MATE ELSE MATE)
    /\ epc' = "done"
    /\ UNCHANGED <<seed, board, searchVars, guiVars, heap, board_copy, evaluator,
                   material, pst_score, white_moves, black_moves, board_before>>

\* line 90-91: if board.is_stalemate(): return 0
EvalStalemate ==
    /\ epc = "terminal"
    /\ ~IsCheckmateAt(heap.board) /\ IsStalemateAt(heap.board)
    /\ static_score' = 0
    /\ epc' = "done"
    /\ UNCHANGED <<seed, board, searchVars, guiVars, heap, board_copy, evaluator,
                   material, pst_score, white_moves, black_moves, board_before>>

\* line 93-102: the material and piece-square sums
EvalMaterial ==
    /\ epc = "terminal"
    /\ ~IsCheckmateAt(heap.board) /\ ~IsStalemateAt(heap.board)
    /\ material' = MaterialSum(heap.board.placement, 63)
    /\ pst_score' = PstSum(evaluator, heap.board.placement, 63)
    /\ epc' = "copy"
    /\ UNCHANGED <<seed, board, searchVars, guiVars, heap, board_copy, evaluator,
                   white_moves, black_moves, static_score, board_before>>

\* line 109: board_copy = board.copy()
EvalCopy ==
    /\ epc = "copy"
    /\ board_copy' = CopyRef("board")
    /\ heap' = [heap EXCEPT ![CopyRef("board")] = heap.board]
    /\ epc' = "white"
    /\ UNCHANGED <<seed, board, searchVars, guiVars, evaluator, material, pst_score,
                   white_moves, black_moves, static_score, board_before>>

\* line 110-111: board_copy.turn = chess.WHITE; white_moves = len(...)
EvalWhiteMoves ==
    /\ epc = "white"
    /\ heap' = [heap EXCEPT ![board_copy].turn = WHITE]
    /\ white_moves' = MobilityOf(heap[board_copy], WHITE)
    /\ epc' = "black"
    /\ UNCHANGED <<seed, board, searchVars, guiVars, board_copy, evaluator, material,
                   pst_score, black_moves, static_score, board_before>>

\* line 112-113: board_copy.turn = chess.BLACK; black_moves = len(...)
EvalBlackMoves ==
    /\ epc = "black"
    /\ heap' = [heap EXCEPT ![board_copy].turn = BLACK]
    /\ black_moves' = MobilityOf(heap[board_copy], BLACK)
    /\ epc' = "sum"
    /\ UNCHANGED <<seed, board, searchVars, guiVars, board_copy, evaluator, material,
                   pst_score, white_moves, static_score, board_before>>

\* line 114-117: score = material + pst_score + mobility_score; return score
EvalReturn ==
    /\ epc = "sum"
    /\ static_score' = material + pst_score + (white_moves - black_moves) * 10
    /\ board_copy' = "none"
    /\ heap' = [heap EXCEPT !.copy = NoBoard]
    /\ epc' = "done"
    /\ UNCHANGED <<seed, board, searchVars, guiVars, evaluator, material, pst_score,
                   white_moves, black_moves, board_before>>

\* the caller plays a legal move on its board between two evaluations
EvalPlay ==
    /\ epc \in {"idle", "done"}
    /\ Len(heap.board.move_stack) < MaxEvalPly
    /\ \E mv \in LegalMoveSet(heap.board) :
          heap' = [heap EXCEPT !.board = PushMove(heap.board, mv)]
    /\ epc' = "idle"
    /\ UNCHANGED <<seed, board, searchVars, guiVars, evalLocals>>

\* the evaluator at rest on the starting position
InitEval ==
    /\ heap = [board |-> StartBoard, copy |-> NoBoard]
    /\ board_copy = "none"
    /\ epc = "idle"
    /\ evaluator = "evaluate_board"
    /\ material = 0 /\ pst_score = 0 /\ white_moves = 0 /\ black_moves = 0
    /\ static_score = 0
    /\ board_before = StartBoard

(* ------------------------------ alphabeta ----------------------------- *)
Max(x, y) == IF x >= y THEN x ELSE y
Min(x, y) == IF x <= y THEN x ELSE y

\* mutant: the sort key is inverted
CaptureKey_inverted(b, m) == IF is_capture(b, m) THEN 1 ELSE 0

\* key=lambda m: 0 if board.is_capture(m) else 1
CaptureKey(b, m) == IF is_capture(b, m) THEN 0 ELSE 1

\* one step of the stable sort: m goes behind every element whose key is not larger
InsertByKey(b, sorted, m) ==
    LET NotLarger(x) == CaptureKey(b, x) <= CaptureKey(b, m)
        Larger(x)    == CaptureKey(b, x) > CaptureKey(b, m)
    IN  SelectSeq(sorted, NotLarger) \o <<m>> \o SelectSeq(sorted, Larger)

RECURSIVE SortByKey(_, _)
SortByKey(b, ms) ==
    IF ms = <<>> THEN <<>>
    ELSE InsertByKey(b, SortByKey(b, SubSeq(ms, 1, Len(ms) - 1)), ms[Len(ms)])

\* moves = list(board.legal_moves); moves.sort(key=...)
OrderedMoves(b) == SortByKey(b, legal_moves(b))

\* mutant: the depth test is off by one
IsLeaf_off_by_one(b, depth) == depth < 0 \/ is_game_over(b)

\* if depth == 0 or board.is_game_over()
IsLeaf(b, depth) == depth = 0 \/ is_game_over(b)

\* mutant: equal bounds do not cut
Cutoff_strict(alpha, beta) == beta < alpha

\* mutant: the cutoff is taken two points early
Cutoff_wide(alpha, beta) == beta <= alpha + 2

\* mutant: the cutoff is taken one point early
Cutoff_early(alpha, beta) == beta <= alpha + 1

\* if beta <= alpha: break
Cutoff(alpha, beta) == beta <= alpha

\* mutant: alphabeta_simple goes on when alpha = beta
CutoffSimple_strict(alpha, beta) == alpha > beta

\* alphabeta_simple: if alpha >= beta: break
CutoffSimple(alpha, beta) == alpha >= beta

NoRet    == [valid |-> FALSE, score |-> 0, move |-> None]
NoResult == [valid |-> FALSE, move |-> None, score |-> 0]
NoReq    == [valid |-> FALSE, depth |-> 0, board0 |-> <<>>]

\* a fresh activation of alphabeta(board, depth, alpha, beta, maximizing);
\* `node` is the position `moves` was listed for and `applied` the moves the
\* node has pushed so far, in order
NewFrame(depth, alpha, beta, maximizing) ==
    [depth |-> depth, alpha |-> alpha, beta |-> beta, maximizing |-> maximizing,
     pc |-> "entry", moves |-> <<>>, i |-> 0, value |-> 0, best_move |-> None,
     node |-> <<>>, applied |-> <<>>]

\* mutant: the recursive call keeps the depth
ChildFrame_same_depth(f) == NewFrame(f.depth, f.alpha, f.beta, ~f.maximizing)

\* the frame the recursive call runs in
ChildFrame(f) == NewFrame(f.depth - 1, f.alpha, f.beta, ~f.maximizing)

\* mutant: the running best starts at 0
InitialValue_zero(maximizing) == 0

\* max_eval = -math.inf / min_eval = math.inf
InitialValue(maximizing) == IF maximizing THEN 0 - INF ELSE INF

\* mutant: a tie replaces the best move
MinFold_ties_replace(f, eval_score) ==
    LET better == eval_score <= f.value
        bt     == IF f.beta <= eval_score THEN f.beta ELSE eval_score
    IN  [f EXCEPT !.value     = IF better THEN eval_score ELSE f.value,
                  !.best_move = IF better THEN f.moves[f.i] ELSE f.best_move,
                  !.beta      = bt,
                  !.i         = f.i + 1,
                  !.pc        = IF bt <= f.alpha THEN "break" ELSE "loop"]

\* mutant: an equal score replaces the best move of a maximizing node
MaxFold_ties_replace(f, eval_score) ==
    LET better == eval_score >= f.value
        a      == Max(f.alpha, eval_score)
    IN  [f EXCEPT !.value     = IF better THEN eval_score ELSE f.value,
                  !.best_move = IF better THEN f.moves[f.i] ELSE f.best_move,
                  !.alpha     = a,
                  !.i         = f.i + 1,
                  !.pc        = IF a >= f.beta THEN "break" ELSE "loop"]

\* mutant: alpha is not raised
MaxFold_alpha_kept(f, eval_score) ==
    LET better == eval_score > f.value
    IN  [f EXCEPT !.value     = IF better THEN eval_score ELSE f.value,
                  !.best_move = IF better THEN f.moves[f.i] ELSE f.best_move,
                  !.i         = f.i + 1,
                  !.pc        = IF Cutoff(f.alpha, f.beta) THEN "break" ELSE "loop"]

\* maximizing branch, after board.pop(): fold eval_score into max_eval,
\* best_move and alpha, then test the cutoff
MaxFold(f, eval_score) ==
    LET better == eval_score > f.value
        a      == Max(f.alpha, eval_score)
    IN  [f EXCEPT !.value     = IF better THEN eval_score ELSE f.value,
                  !.best_move = IF better THEN f.moves[f.i] ELSE f.best_move,
                  !.alpha     = a,
                  !.i         = f.i + 1,
                  !.pc        = IF Cutoff(a, f.beta) THEN "break" ELSE "loop"]

\* minimizing branch, after board.pop()
MinFold(f, eval_score) ==
    LET better == eval_score < f.value
        bt     == Min(f.beta, eval_score)
    IN  [f EXCEPT !.value     = IF better THEN eval_score ELSE f.value,
                  !.best_move = IF better THEN f.moves[f.i] ELSE f.best_move,
                  !.beta      = bt,
                  !.i         = f.i + 1,
                  !.pc        = IF Cutoff(f.alpha, bt) THEN "break" ELSE "loop"]

\* alphabeta_simple, maximizing branch: alpha = max(alpha, value)
MaxFoldSimple(f, val) ==
    LET better == val > f.value
        v      == IF better THEN val ELSE f.value
        a      == Max(f.alpha, v)
    IN  [f EXCEPT !.value     = v,
                  !.best_move = IF better THEN f.moves[f.i] ELSE f.best_move,
                  !.alpha     = a,
                  !.i         = f.i + 1,
                  !.pc        = IF CutoffSimple(a, f.beta) THEN "break" ELSE "loop"]

\* alphabeta_simple, minimizing branch: beta = min(beta, value)
MinFoldSimple(f, val) ==
    LET better == val < f.value
        v      == IF better THEN val ELSE f.value
        bt     == Min(f.beta, v)
    IN  [f EXCEPT !.value     = v,
                  !.best_move = IF better THEN f.moves[f.i] ELSE f.best_move,
                  !.beta      = bt,
                  !.i         = f.i + 1,
                  !.pc        = IF CutoffSimple(f.alpha, bt) THEN "break" ELSE "loop"]

\* the update of a node by the search that runs
Fold(f, score) ==
    IF engine = "external"
    THEN (IF f.maximizing THEN MaxFold(f, score) ELSE MinFold(f, score))
    ELSE (IF f.maximizing THEN MaxFoldSimple(f, score) ELSE MinFoldSimple(f, score))

\* the leaf evaluator of the search that runs
Evaluate(b) == IF engine = "external" THEN evaluate_board(b) ELSE evaluate_simple(b)

\* a chess.Move listed for position n, as it lands on the board b: one of b's
\* legal moves when b is that position, a move foreign to b's list otherwise
AsPlayed(n, b, m) == IF n = b THEN m ELSE m + MaxMoves

Top        == stack[Len(stack)]
Below      == SubSeq(stack, 1, Len(stack) - 1)
Searching  == cpc = "searching"

\* line 121-122: a leaf returns (evaluate_board(board), None)
AlphabetaLeaf ==
    /\ Searching /\ stack # <<>> /\ Top.pc = "entry"
    /\ IsLeaf(board, Top.depth)
    /\ ret' = [valid |-> TRUE, score |-> Evaluate(board), move |-> None]
    /\ stack' = Below
    /\ neval' = neval + 1
    /\ UNCHANGED <<seed, evalVars, board, cpc, req, result, npush, npop, ncall, engine, guiVars>>

\* line 124-130 / 143: the node is expanded, its moves listed and ordered
AlphabetaExpand ==
    /\ Searching /\ stack # <<>> /\ Top.pc = "entry"
    /\ ~IsLeaf(board, Top.depth)
    /\ stack' = Append(Below,
                  [Top EXCEPT !.moves = OrderedMoves(board),
                              !.node = board,
                              !.value = InitialValue(Top.maximizing),
                              !.best_move = None,
                              !.i = 1,
                              !.pc = "loop"])
    /\ UNCHANGED <<seed, evalVars, board, ret, cpc, req, result, npush, npop, neval, ncall,
                   engine, guiVars>>

\* line 131-133 / 144-146: board.push(move) and the recursive call
AlphabetaPush ==
    /\ Searching /\ stack # <<>> /\ Top.pc = "loop"
    /\ Top.i <= Len(Top.moves)
    /\ LET mv == AsPlayed(Top.node, board, Top.moves[Top.i]) IN
         /\ board' = push(board, mv)
         /\ stack' = Below \o <<[Top EXCEPT !.pc = "wait",
                                            !.applied = Append(@, mv)],
                               ChildFrame(Top)>>
    /\ ret' = NoRet
    /\ npush' = npush + 1
    /\ ncall' = ncall + 1
    /\ UNCHANGED <<seed, evalVars, cpc, req, result, npop, neval, engine, guiVars>>

\* line 134-140 / 147-153: board.pop() and the update of the node
AlphabetaPop ==
    /\ Searching /\ stack # <<>> /\ Top.pc = "wait" /\ ret.valid
    /\ board # <<>>
    /\ board' = pop(board)
    /\ stack' = Append(Below, Fold(Top, ret.score))
    /\ ret' = NoRet
    /\ npop' = npop + 1
    /\ UNCHANGED <<seed, evalVars, cpc, req, result, npush, neval, ncall, engine, guiVars>>

\* line 141 / 154: return max_eval, best_move
AlphabetaReturn ==
    /\ Searching /\ stack # <<>>
    /\ \/ Top.pc = "break"
       \/ Top.pc = "loop" /\ Top.i > Len(Top.moves)
    /\ ret' = [valid |-> TRUE, score |-> Top.value, move |-> Top.best_move]
    /\ stack' = Below
    /\ UNCHANGED <<seed, evalVars, board, cpc, req, result, npush, npop, neval, ncall,
                   engine, guiVars>>

(* ----------------------------- select_move ---------------------------- *)
\* alphabeta(board, depth, -math.inf, math.inf, board.turn == chess.WHITE)
RootFrame(b, depth) == NewFrame(depth, 0 - INF, INF, turn(b) = WHITE)

\* the search `eng` is entered on the board with the depth d
BeginSearch(d, eng) ==
    /\ cpc' = "searching"
    /\ engine' = eng
    /\ req' = [valid |-> TRUE, depth |-> d, board0 |-> board]
    /\ stack' = <<RootFrame(board, d)>>
    /\ ret' = NoRet
    /\ result' = NoResult
    /\ npush' = 0 /\ npop' = 0 /\ neval' = 0 /\ ncall' = 1

\* play_console line 186: move, score = select_move(board, engine_depth)
SelectMoveCall(d) ==
    /\ cpc = "idle" /\ wpc = "off"
    /\ BeginSearch(d, "external")
    /\ UNCHANGED <<seed, evalVars, board, guiVars>>

\* return move, eval_score
SelectMoveReturn ==
    /\ Searching /\ stack = <<>> /\ ret.valid
    /\ result' = [valid |-> TRUE, move |-> ret.move, score |-> ret.score]
    /\ cpc' = "idle"
    /\ ret' = NoRet
    /\ UNCHANGED <<seed, evalVars, board, stack, req, npush, npop, neval, ncall, engine, guiVars>>

(* ---------------------------- play_console ---------------------------- *)
\* a move that is in board.legal_moves is pushed on the board
PlayMove(m) ==
    /\ cpc = "idle" /\ wpc = "off"
    /\ ~is_game_over(board)
    /\ m \in 1 .. Len(legal_moves(board))
    /\ board' = push(board, m)
    /\ req' = NoReq
    /\ result' = NoResult
    /\ npush' = 0 /\ npop' = 0 /\ neval' = 0 /\ ncall' = 0
    /\ UNCHANGED <<seed, evalVars, stack, ret, cpc, engine, guiVars>>

InitSearch ==
    /\ board = <<>>
    /\ stack = <<>>
    /\ ret = NoRet
    /\ cpc = "idle"
    /\ req = NoReq
    /\ result = NoResult
    /\ npush = 0 /\ npop = 0 /\ neval = 0 /\ ncall = 0
    /\ engine = "external"

\* run_gui line 310-325
InitGui ==
    /\ move_history = <<>>
    /\ engine_on = FALSE
    /\ engine_depth = ENGINE_DEPTH
    /\ engine_thinking = FALSE
    /\ wpc = "off"
    /\ mpc = "idle"
    /\ mtmp = None
    /\ nevents = 0
    /\ nworkers = 0

Init ==
    /\ seed \in Seeds
    /\ InitSearch
    /\ InitGui
    /\ InitEval

Next ==
    \/ \E d \in Depths : SelectMoveCall(d)
    \/ AlphabetaLeaf
    \/ AlphabetaExpand
    \/ AlphabetaPush
    \/ AlphabetaPop
    \/ AlphabetaReturn
    \/ SelectMoveReturn
    \/ \E m \in Moves : PlayMove(m)

Spec == Init /\ [][Next]_vars

\* a step of the search in flight: the computation is synchronous and never
\* suspends, so a call that can take a step takes it
SearchStep ==
    \/ AlphabetaLeaf
    \/ AlphabetaExpand
    \/ AlphabetaPush
    \/ AlphabetaPop
    \/ AlphabetaReturn
    \/ SelectMoveReturn

NumFairSeeds == 16

\* the console program on the first NumFairSeeds game trees
InitFair ==
    /\ seed \in 0 .. (NumFairSeeds - 1)
    /\ InitSearch
    /\ InitGui
    /\ InitEval

FairSpec == InitFair /\ [][Next]_vars /\ WF_vars(SearchStep)

(* ------------------------- chess_gui: run_gui ------------------------- *)
NumGuiSeeds == 6
MaxEvents == 3
GuiSeeds == 0 .. (NumGuiSeeds - 1)

\* an exception leaves the search: no frame undoes its push.  The external
\* engine's exception is swallowed by select_move_fallback, which then runs
\* the builtin search; the builtin's exception ends engine_worker's try block
SearchRaises ==
    /\ stack' = <<>>
    /\ ret' = NoRet
    /\ result' = NoResult
    /\ cpc' = "idle"
    /\ wpc' = IF engine = "external" THEN "fallback" ELSE "end"
    /\ UNCHANGED <<seed, evalVars, nworkers, board, req, npush, npop, neval, ncall, engine,
                   move_history, engine_on, engine_depth, engine_thinking, mpc, mtmp, nevents>>

\* board.pop() of the search on a board whose move stack is empty: IndexError
AlphabetaPopRaises ==
    /\ Searching /\ stack # <<>> /\ Top.pc = "wait" /\ ret.valid
    /\ board = <<>>
    /\ SearchRaises

\* board.push(move) of the search with a move listed for another position:
\* the rules engine may reject it (or take it, see AlphabetaPush)
AlphabetaPushRaises ==
    /\ Searching /\ stack # <<>> /\ Top.pc = "loop"
    /\ Top.i <= Len(Top.moves)
    /\ Top.node # board
    /\ SearchRaises

\* mutant: the worker is started whether or not one is alive
NoWorkerAlive_unchecked == TRUE

\* line 455: engine_thread is None or not engine_thread.is_alive()
NoWorkerAlive == wpc = "off"

\* line 453-457: the worker thread is started
StartEngine ==
    /\ mpc = "idle"
    /\ engine_on /\ turn(board) = BLACK /\ ~is_game_over(board)
    /\ NoWorkerAlive
    /\ wpc' = "begin"
    /\ nworkers' = nworkers + 1
    /\ UNCHANGED <<seed, evalVars, board, searchVars, move_history, engine_on, engine_depth,
                   engine_thinking, mpc, mtmp, nevents>>

\* line 329-330: with engine_lock: engine_thinking = True
WorkerBegin ==
    /\ wpc = "begin"
    /\ engine_thinking' = TRUE
    /\ wpc' = "call"
    /\ UNCHANGED <<seed, evalVars, nworkers, board, searchVars, move_history, engine_on, engine_depth,
                   mpc, mtmp, nevents>>

\* line 332, 169-171: select_move_fallback calls the external select_move
WorkerCallExternal ==
    /\ wpc = "call"
    /\ BeginSearch(engine_depth, "external")
    /\ wpc' = "search"
    /\ UNCHANGED <<seed, evalVars, nworkers, board, move_history, engine_on, engine_depth,
                   engine_thinking, mpc, mtmp, nevents>>

\* line 173-175: after the external engine raised, the builtin search runs
WorkerCallBuiltin ==
    /\ wpc = "fallback"
    /\ BeginSearch(req.depth, "builtin")
    /\ wpc' = "search"
    /\ UNCHANGED <<seed, evalVars, nworkers, board, move_history, engine_on, engine_depth,
                   engine_thinking, mpc, mtmp, nevents>>

\* line 333-334: if mv is not None: board.push(mv)
WorkerPush ==
    /\ wpc = "search" /\ cpc = "idle" /\ result.valid
    /\ result.move # None
    /\ board' = push(board, AsPlayed(req.board0, board, result.move))
    /\ wpc' = "append"
    /\ UNCHANGED <<seed, evalVars, nworkers, searchVars, move_history, engine_on, engine_depth,
                   engine_thinking, mpc, mtmp, nevents>>

\* line 333: mv is None, nothing is played
WorkerNoMove ==
    /\ wpc = "search" /\ cpc = "idle" /\ result.valid
    /\ result.move = None
    /\ wpc' = "end"
    /\ UNCHANGED <<seed, evalVars, nworkers, board, searchVars, move_history, engine_on, engine_depth,
                   engine_thinking, mpc, mtmp, nevents>>

\* line 335-336: move_history.append(mv)
WorkerAppend ==
    /\ wpc = "append"
    /\ move_history' = Append(move_history, result.move)
    /\ wpc' = "end"
    /\ UNCHANGED <<seed, evalVars, nworkers, board, searchVars, engine_on, engine_depth,
                   engine_thinking, mpc, mtmp, nevents>>

\* line 339-340: with engine_lock: engine_thinking = False; the thread ends
WorkerEnd ==
    /\ wpc = "end"
    /\ engine_thinking' = FALSE
    /\ wpc' = "off"
    /\ nworkers' = nworkers - 1
    /\ UNCHANGED <<seed, evalVars, board, searchVars, move_history, engine_on, engine_depth,
                   mpc, mtmp, nevents>>

\* line 382 / 402: a move that is in board.legal_moves is pushed
HumanPush(m) ==
    /\ mpc = "idle" /\ nevents < MaxEvents
    /\ nevents' = nevents + 1
    /\ Len(board) < MaxPly
    /\ m \in 1 .. Len(legal_moves(board))
    /\ board' = push(board, m)
    /\ mtmp' = m
    /\ mpc' = "append"
    /\ UNCHANGED <<seed, evalVars, nworkers, searchVars, move_history, engine_on, engine_depth,
                   engine_thinking, wpc>>

\* line 383 / 403: move_history.append(mv)
HumanAppend ==
    /\ mpc = "append"
    /\ move_history' = Append(move_history, mtmp)
    /\ mtmp' = None
    /\ mpc' = "idle"
    /\ UNCHANGED <<seed, evalVars, nworkers, board, searchVars, engine_on, engine_depth,
                   engine_thinking, wpc, nevents>>

\* line 438-440 / 498-500: Undo: board.pop()
UndoPop ==
    /\ mpc = "idle" /\ nevents < MaxEvents
    /\ nevents' = nevents + 1
    /\ Len(move_history) > 0
    /\ board # <<>>
    /\ board' = pop(board)
    /\ mpc' = "undo"
    /\ UNCHANGED <<seed, evalVars, nworkers, searchVars, move_history, engine_on, engine_depth,
                   engine_thinking, wpc, mtmp>>

\* line 441 / 501: move_history.pop()
UndoHistory ==
    /\ mpc = "undo"
    /\ move_history' = pop(move_history)
    /\ mpc' = "idle"
    /\ UNCHANGED <<seed, evalVars, nworkers, board, searchVars, engine_on, engine_depth,
                   engine_thinking, wpc, mtmp, nevents>>

\* line 431 / 492: New Game: board.reset()
NewGameReset ==
    /\ mpc = "idle" /\ nevents < MaxEvents
    /\ nevents' = nevents + 1
    /\ board' = <<>>
    /\ mpc' = "new"
    /\ UNCHANGED <<seed, evalVars, nworkers, searchVars, move_history, engine_on, engine_depth,
                   engine_thinking, wpc, mtmp>>

\* line 435 / 496: move_history = []
NewGameClear ==
    /\ mpc = "new"
    /\ move_history' = <<>>
    /\ mpc' = "idle"
    /\ UNCHANGED <<seed, evalVars, nworkers, board, searchVars, engine_on, engine_depth,
                   engine_thinking, wpc, mtmp, nevents>>

\* line 445-446 / 505-506: engine_on = not engine_on
ToggleEngine ==
    /\ mpc = "idle" /\ nevents < MaxEvents
    /\ nevents' = nevents + 1
    /\ engine_on' = ~engine_on
    /\ UNCHANGED <<seed, evalVars, nworkers, board, searchVars, move_history, engine_depth,
                   engine_thinking, wpc, mpc, mtmp>>

\* line 447-448: engine_depth = max(1, engine_depth - 1)
DepthMinus ==
    /\ mpc = "idle" /\ nevents < MaxEvents
    /\ nevents' = nevents + 1
    /\ engine_depth' = Max(1, engine_depth - 1)
    /\ UNCHANGED <<seed, evalVars, nworkers, board, searchVars, move_history, engine_on,
                   engine_thinking, wpc, mpc, mtmp>>

\* line 449-450: engine_depth = min(5, engine_depth + 1)
DepthPlus ==
    /\ mpc = "idle" /\ nevents < MaxEvents
    /\ nevents' = nevents + 1
    /\ engine_depth' = Min(5, engine_depth + 1)
    /\ UNCHANGED <<seed, evalVars, nworkers, board, searchVars, move_history, engine_on,
                   engine_thinking, wpc, mpc, mtmp>>

InitRunGui ==
    /\ seed \in GuiSeeds
    /\ InitSearch
    /\ InitGui
    /\ InitEval

NextGui ==
    \/ StartEngine
    \/ WorkerBegin
    \/ WorkerCallExternal
    \/ WorkerCallBuiltin
    \/ AlphabetaLeaf
    \/ AlphabetaExpand
    \/ AlphabetaPush
    \/ AlphabetaPushRaises
    \/ AlphabetaPop
    \/ AlphabetaPopRaises
    \/ AlphabetaReturn
    \/ SelectMoveReturn
    \/ WorkerPush
    \/ WorkerNoMove
    \/ WorkerAppend
    \/ WorkerEnd
    \/ \E m \in Moves : HumanPush(m)
    \/ HumanAppend
    \/ UndoPop
    \/ UndoHistory
    \/ NewGameReset
    \/ NewGameClear
    \/ ToggleEngine
    \/ DepthMinus
    \/ DepthPlus

SpecGui == InitRunGui /\ [][NextGui]_vars

(* -------------------- the evaluator run by itself --------------------- *)
InitEvaluate ==
    /\ seed = 0
    /\ InitSearch
    /\ InitGui
    /\ heap \in {[board |-> b, copy |-> NoBoard] : b \in EvalInputs}
    /\ board_copy = "none"
    /\ epc = "idle"
    /\ evaluator = "evaluate_board"
    /\ material = 0 /\ pst_score = 0 /\ white_moves = 0 /\ black_moves = 0
    /\ static_score = 0
    /\ board_before = heap.board

NextEval ==
    \/ \E ev \in Evaluators : EvalCall(ev)
    \/ EvalCheckmate
    \/ EvalStalemate
    \/ EvalMaterial
    \/ EvalCopy
    \/ EvalWhiteMoves
    \/ EvalBlackMoves
    \/ EvalReturn
    \/ EvalPlay

SpecEval == InitEvaluate /\ [][NextEval]_vars

(* ====================== properties of the search ====================== *)
Range(f) == {f[i] : i \in DOMAIN f}
SetMax(S) == CHOOSE x \in S : \A y \in S : y <= x
SetMin(S) == CHOOSE x \in S : \A y \in S : x <= y

\* exhaustive minimax of depth d over the same tree and the same evaluator
RECURSIVE Minimax(_, _, _)
Minimax(b, d, maximizing) ==
    IF d = 0 \/ is_game_over(b) THEN evaluate_board(b)
    ELSE LET vals == {Minimax(push(b, m), d - 1, ~maximizing) : m \in Range(legal_moves(b))}
         IN  IF maximizing THEN SetMax(vals) ELSE SetMin(vals)

\* number of nodes of the depth-d tree below b, the root included
RECURSIVE TreeSize(_, _)
RECURSIVE SumSizes(_, _, _)
SumSizes(b, d, n) ==
    IF n = 0 THEN 0
    ELSE TreeSize(push(b, legal_moves(b)[n]), d) + SumSizes(b, d, n - 1)
TreeSize(b, d) ==
    IF d = 0 \/ is_game_over(b) THEN 1
    ELSE 1 + SumSizes(b, d - 1, Len(legal_moves(b)))

Done == result.valid /\ req.valid /\ cpc = "idle"
Root == req.board0
RootMax == turn(Root) = WHITE
Pruned == ncall < TreeSize(Root, req.depth)

\* C1: a full-window search of depth d >= 0 returns the score of the
\* exhaustive, unpruned minimax of the same depth
C1_ScoreIsMinimax ==
    (Done /\ req.depth >= 0) => result.score = Minimax(Root, req.depth, RootMax)

C1_Witness == Done /\ req.depth = MaxDepth /\ Pruned /\ result.move # None

\* C2: when select_move returns the board is the board of the call, every
\* push was matched by one pop; when an inner call returns, exactly the moves
\* of the frames still waiting are on the board
C2_BoardRestored ==
    /\ Done => (board = Root /\ npush = npop)
    /\ (Searching /\ ret.valid) =>
          /\ Len(board) = Len(Root) + Len(stack)
          /\ SubSeq(board, 1, Len(Root)) = Root
          /\ npush = npop + Len(stack)

C2_Witness == Done /\ npush >= 3 /\ Pruned /\ Len(Root) > 0

MateScore(b) == IF turn(b) = WHITE THEN MATE ELSE 0 - MATE
HasMateInOne(b) == \E m \in Range(legal_moves(b)) : is_checkmate(push(b, m))

\* C3 as stated: with a mate in one available in a game that is not over,
\* any depth >= 1 returns a mating move and the extreme score
C3_ReturnsMatingMove ==
    (Done /\ req.depth >= 1 /\ HasMateInOne(Root) /\ ~is_game_over(Root)) =>
        /\ result.score = MateScore(Root)
        /\ result.move \in Range(legal_moves(Root))
        /\ is_checkmate(push(Root, result.move))

\* C3 amended: from a position that is not game over, the extreme score is
\* returned with the first move in visiting order whose subtree has that
\* value; it is a mating move when the depth is 1 or 2
C3_ReturnsWinningMove ==
    (Done /\ req.depth >= 1 /\ HasMateInOne(Root) /\ ~is_game_over(Root)) =>
        /\ result.score = MateScore(Root)
        /\ result.move \in Range(legal_moves(Root))
        /\ Minimax(push(Root, result.move), req.depth - 1, ~RootMax) = MateScore(Root)
        /\ \A k \in 1 .. Len(OrderedMoves(Root)) :
              (\E j \in (k + 1) .. Len(OrderedMoves(Root)) :
                    OrderedMoves(Root)[j] = result.move)
              => Minimax(push(Root, OrderedMoves(Root)[k]), req.depth - 1, ~RootMax)
                    # MateScore(Root)
        /\ req.depth <= 2 => is_checkmate(push(Root, result.move))

C3_Witness ==
    /\ Done /\ req.depth = 2 /\ HasMateInOne(Root) /\ ~is_game_over(Root)
    /\ Len(legal_moves(Root)) >= 2
    /\ ~is_checkmate(push(Root, OrderedMoves(Root)[1]))
    /\ is_checkmate(push(Root, result.move))

\* the legal moves of b, captures first, enumeration order kept in both groups
CapturesFirst(b) ==
    LET lm == legal_moves(b)
        IsCap(m) == is_capture(b, m)
        NotCap(m) == ~is_capture(b, m)
    IN  SelectSeq(lm, IsCap) \o SelectSeq(lm, NotCap)

\* the position of the node the j-th frame of the stack expands
NodeOf(j) == SubSeq(board, 1, Len(Root) + j - 1)

\* C5: the moves a node has applied so far are a prefix of its legal moves
\* stably partitioned by capture
C5_CapturesFirstOrder ==
    Searching =>
        \A j \in 1 .. Len(stack) :
            stack[j].pc # "entry" =>
                /\ stack[j].moves = CapturesFirst(NodeOf(j))
                /\ stack[j].applied = SubSeq(CapturesFirst(NodeOf(j)), 1, Len(stack[j].applied))
                /\ stack[j].pc = "wait" =>
                       board[Len(Root) + j] = stack[j].applied[Len(stack[j].applied)]

C5_Witness ==
    /\ Searching /\ stack # <<>> /\ Top.pc = "loop"
    /\ Len(Top.applied) = 3
    /\ Top.applied # legal_moves(NodeOf(Len(stack)))

\* C6: on a checkmate select_move returns no move and -999999 with White to
\* move, +999999 with Black to move, for every depth d >= 0
C6_CheckmateRoot ==
    (Done /\ req.depth >= 0 /\ is_checkmate(Root)) =>
        /\ result.move = None
        /\ result.score = (IF turn(Root) = WHITE THEN 0 - MATE ELSE MATE)

C6_Witness == Done /\ req.depth = MaxDepth /\ is_checkmate(Root) /\ turn(Root) = BLACK

\* C7: on a stalemate select_move returns no move and the score 0
C7_StalemateRoot ==
    (Done /\ req.depth >= 0 /\ is_stalemate(Root)) =>
        (result.move = None /\ result.score = 0)

C7_Witness == Done /\ req.depth >= 1 /\ is_stalemate(Root) /\ (MaterialMobility(Root) + PstScore(Root)) # 0

\* C8: depth 0 on a position with a legal move returns no move and the static
\* evaluation of the position, and applies no move
C8_DepthZero ==
    (Done /\ req.depth = 0 /\ legal_moves(Root) # <<>>) =>
        /\ result.move = None
        /\ result.score = (MaterialMobility(Root) + PstScore(Root))
        /\ npush = 0 /\ npop = 0 /\ ncall = 1 /\ neval = 1
        /\ board = Root

C8_Witness ==
    Done /\ req.depth = 0 /\ ~is_game_over(Root) /\ (MaterialMobility(Root) + PstScore(Root)) # 0 /\ Len(Root) > 0

\* C9: no move is returned only for depth 0 or a game-over position;
\* otherwise the move returned is a legal move of the position
C9_MoveOrNone ==
    Done =>
        /\ result.move = None <=> (req.depth = 0 \/ is_game_over(Root))
        /\ result.move # None => result.move \in Range(legal_moves(Root))
        /\ (req.depth >= 1 /\ ~is_game_over(Root)) =>
               result.move \in Range(legal_moves(Root))

C9_Witness ==
    Done /\ req.depth >= 1 /\ ~is_game_over(Root) /\ result.move > 1 /\ result.score < 0

\* C10 as stated: a depth <= 0 is rejected before any alphabeta call, push
\* or evaluation
C10_NonPositiveDepthRejected ==
    (req.valid /\ req.depth <= 0) => (ncall = 0 /\ npush = 0 /\ neval = 0)

\* C4 as stated: while a search is in flight the board is changed by that
\* search's own push and pop only, never by a handler of the main event loop
C4_SearchOwnsBoard ==
    [][(Searching /\ board' # board) => mpc' = mpc]_vars

\* C12: a search of depth d >= 0 runs to completion: its recursion is never
\* deeper than d plies below the root, the depth of every frame is the depth
\* of the call less its ply, and the call returns
C12_SearchTerminates ==
    /\ [](( Searching /\ req.depth >= 0) =>
            /\ Len(stack) <= req.depth + 1
            /\ \A j \in 1 .. Len(stack) : stack[j].depth = req.depth - (j - 1)
            /\ Len(board) <= Len(Root) + req.depth)
    /\ ((Searching /\ req.depth >= 0) ~> Done)

C12_Witness ==
    Done /\ req.depth = MaxDepth /\ ncall >= 10 /\ npush = ncall - 1 /\ Len(Root) = 1

\* C13: in the GUI at most one engine_worker thread is alive, a worker is
\* alive whenever a search is in flight, so no two searches run on the
\* shared board at the same time
C13_OneSearchAtATime ==
    /\ nworkers <= 1
    /\ nworkers = 1 <=> wpc # "off"
    /\ Searching => nworkers = 1

C13_Witness ==
    /\ Searching /\ wpc = "search" /\ nworkers = 1
    /\ mpc = "idle" /\ engine_on /\ turn(board) = BLACK /\ ~is_game_over(board)
    /\ npush > 0

(* ------------- alphabeta under another order of the moves -------------- *)
NumOrders == 6

Orders == 0 .. (NumOrders - 1)

RECURSIVE Factorial(_)
Factorial(n) == IF n <= 1 THEN 1 ELSE n * Factorial(n - 1)

RemoveAt(ms, i) == SubSeq(ms, 1, i - 1) \o SubSeq(ms, i + 1, Len(ms))

\* the k-th permutation of ms; k = 0 .. Len(ms)! - 1 gives them all
RECURSIVE NthPermutation(_, _)
NthPermutation(ms, k) ==
    IF ms = <<>> THEN <<>>
    ELSE LET i == (k % Len(ms)) + 1
         IN  <<ms[i]>> \o NthPermutation(RemoveAt(ms, i), k \div Len(ms))

\* the order o visits the legal moves of b in: a permutation that varies
\* from node to node, the six orders giving a node each of its permutations
MovesInOrder(o, b) ==
    NthPermutation(legal_moves(b), (o + Key(b)) % Factorial(Len(legal_moves(b))))

\* alphabeta(b, depth, alpha, beta, maximizing) of chess_engine.py with the
\* moves of every node listed by MovesInOrder(o, .): the frame at its return
RECURSIVE AlphabetaIn(_, _, _, _, _, _)
RECURSIVE LoopIn(_, _, _)
LoopIn(o, b, f) ==
    IF f.pc = "break" \/ f.i > Len(f.moves) THEN f
    ELSE LET child == AlphabetaIn(o, push(b, f.moves[f.i]), f.depth - 1,
                                  f.alpha, f.beta, ~f.maximizing)
         IN  LoopIn(o, b, IF f.maximizing THEN MaxFold(f, child.value)
                                           ELSE MinFold(f, child.value))
AlphabetaIn(o, b, depth, alpha, beta, maximizing) ==
    IF IsLeaf(b, depth)
    THEN [NewFrame(depth, alpha, beta, maximizing) EXCEPT !.value = evaluate_board(b)]
    ELSE LoopIn(o, b, [NewFrame(depth, alpha, beta, maximizing) EXCEPT
                           !.moves = MovesInOrder(o, b),
                           !.node = b,
                           !.value = InitialValue(maximizing),
                           !.i = 1,
                           !.pc = "loop"])

SelectMoveIn(o, b, depth) == AlphabetaIn(o, b, depth, 0 - INF, INF, turn(b) = WHITE)

\* C14: the score of the full-window search is the score the search returns
\* under every other order of the moves of the nodes
C14_OrderKeepsScore ==
    (Done /\ req.depth >= 0) =>
        \A o \in Orders : SelectMoveIn(o, Root, req.depth).value = result.score

C14_Witness ==
    /\ Done /\ req.depth = MaxDepth /\ Pruned
    /\ \E o \in Orders :
          /\ MovesInOrder(o, Root) # OrderedMoves(Root)
          /\ SelectMoveIn(o, Root, req.depth).best_move # result.move
          /\ SelectMoveIn(o, Root, req.depth).value = result.score

\* the (alpha, beta) pair the j-th frame of the stack was called with: the
\* root's is (-inf, +inf), an inner frame's is the pair its caller holds
\* while it waits for the call
Received(j) ==
    IF j = 1 THEN <<0 - INF, INF>> ELSE <<stack[j - 1].alpha, stack[j - 1].beta>>

\* C16 as stated: every child is called with the pair its parent was called
\* with, whichever of the parent's moves it is
C16_ChildGetsSeedBounds ==
    Searching =>
        \A j \in 2 .. Len(stack) : Received(j) = Received(j - 1)

\* C16 amended: a child is called with the running pair of its parent: the
\* pair the parent was called with, alpha raised (maximizing) or beta lowered
\* (minimizing) by the scores of the parent's earlier moves; the child of the
\* first move gets the parent's pair unchanged
C16_ChildGetsRunningBounds ==
    Searching =>
        \A j \in 1 .. Len(stack) :
            LET f == stack[j]
                r == Received(j)
            IN  /\ f.pc = "entry" => <<f.alpha, f.beta>> = r
                /\ (f.pc # "entry" /\ f.maximizing) =>
                       (f.alpha = Max(r[1], f.value) /\ f.beta = r[2])
                /\ (f.pc # "entry" /\ ~f.maximizing) =>
                       (f.beta = Min(r[2], f.value) /\ f.alpha = r[1])
                /\ (f.pc = "wait" /\ Len(f.applied) = 1) => <<f.alpha, f.beta>> = r

C16_Witness ==
    /\ Searching /\ Len(stack) >= 3 /\ Top.pc = "entry"
    /\ Len(stack[Len(stack) - 1].applied) >= 2
    /\ Received(Len(stack)) # Received(Len(stack) - 1)
    /\ Received(Len(stack) - 1) # Received(Len(stack) - 2)

\* the exhaustive value of the k-th move the root visits
RootMoveValue(k) == Minimax(push(Root, OrderedMoves(Root)[k]), req.depth - 1, ~RootMax)

\* the node on top of the stack folds the score of the call that returned
FoldStep ==
    /\ Searching /\ stack # <<>> /\ Top.pc = "wait" /\ ret.valid
    /\ Len(stack') = Len(stack)
    /\ stack'[Len(stack)].pc \in {"loop", "break"}

StrictlyBetter(f, eval_score) ==
    IF f.maximizing THEN eval_score > f.value ELSE eval_score < f.value

\* C17: the move a node returns is the first in visiting order whose score
\* is the best one; at every fold a move replaces the best so far only with
\* a strictly better score, and then it does
C17_FirstBestMoveKept ==
    /\ []((Done /\ req.depth >= 1 /\ ~is_game_over(Root)) =>
            \E k \in 1 .. Len(OrderedMoves(Root)) :
                /\ OrderedMoves(Root)[k] = result.move
                /\ RootMoveValue(k) = result.score
                /\ \A j \in 1 .. (k - 1) :
                       IF RootMax THEN RootMoveValue(j) < result.score
                                  ELSE RootMoveValue(j) > result.score)
    /\ [][FoldStep =>
            LET f == Top
                g == stack'[Len(stack)]
            IN  IF StrictlyBetter(f, ret.score)
                THEN g.best_move = f.moves[f.i] /\ g.value = ret.score
                ELSE g.best_move = f.best_move /\ g.value = f.value]_vars

C17_Witness ==
    /\ Done /\ req.depth >= 2 /\ ~is_game_over(Root)
    /\ Len(OrderedMoves(Root)) = 3
    /\ result.move = OrderedMoves(Root)[2]
    /\ RootMoveValue(3) = result.score
    /\ RootMoveValue(1) # result.score

\* C18: a node whose bounds have met (beta <= alpha after a fold) is left at
\* once, with no further push, call or evaluation from it; a node whose
\* bounds have not met applies its next move in order
C18_CutoffStopsNode ==
    /\ [](Searching =>
            \A j \in 1 .. Len(stack) :
                LET f == stack[j] IN
                /\ f.pc \in {"loop", "wait"} => f.beta > f.alpha
                /\ f.pc = "break" =>
                       /\ f.beta <= f.alpha
                       /\ j = Len(stack)
                       /\ f.applied = SubSeq(f.moves, 1, f.i - 1))
    /\ [][(Searching /\ stack # <<>> /\ Top.pc = "break") =>
            /\ stack' = Below
            /\ ret'.valid /\ ret'.score = Top.value /\ ret'.move = Top.best_move
            /\ UNCHANGED <<board, npush, npop, ncall, neval>>]_vars
    /\ [][(Searching /\ stack # <<>> /\ Top.pc = "loop" /\ Top.i <= Len(Top.moves)) =>
            /\ board' = push(board, Top.moves[Top.i])
            /\ Len(stack') = Len(stack) + 1
            /\ npush' = npush + 1]_vars

C18_Witness ==
    /\ Searching /\ Len(stack) >= 2 /\ Top.pc = "break"
    /\ Len(Top.moves) = 3 /\ Len(Top.applied) = 2
    /\ Top.beta <= Top.alpha

\* the frames that have a move of theirs on the board
Applying == {j \in 1 .. Len(stack) : stack[j].pc = "wait"}

\* C19: during a search of depth d >= 0 from a move stack of height h the
\* height is h plus the number of moves the frames have applied, that is h
\* plus the ply of the call in progress; it stays within h .. h + d, the
\* moves above h are those of the frames in order, and a pop takes off the
\* move its own iteration pushed, never a move of the caller
C19_StackDiscipline ==
    /\ []((Searching /\ req.depth >= 0) =>
            /\ Len(board) = Len(Root) + Cardinality(Applying)
            /\ (stack # <<>> /\ Top.pc # "wait") => Len(board) = Len(Root) + Len(stack) - 1
            /\ Len(board) >= Len(Root) /\ Len(board) <= Len(Root) + req.depth
            /\ SubSeq(board, 1, Len(Root)) = Root
            /\ \A j \in Applying : board[Len(Root) + j] = stack[j].moves[stack[j].i]
            /\ npop <= npush)
    /\ [][(Searching /\ req.depth >= 0 /\ npop' = npop + 1) =>
            /\ Len(board) > Len(Root)
            /\ board = Append(board', Top.moves[Top.i])]_vars

C19_Witness ==
    /\ Searching /\ req.depth = MaxDepth /\ Len(Root) >= 1
    /\ Len(board) = Len(Root) + MaxDepth
    /\ npop >= 2

\* the search call has just been left by an exception
ExitedByException ==
    req.valid /\ cpc = "idle" /\ ~result.valid /\ wpc \in {"fallback", "end"}

\* C20 as stated: when the search is left by an exception every move it had
\* applied has been undone, so the builtin search that follows the external
\* engine's exception starts from the board of the call
C20_ExceptionRestoresBoard ==
    ExitedByException => (npush = npop /\ board = req.board0)

(* ========================= properties of run_gui ======================= *)
\* engine_worker is at its board.push(mv)
EnginePushStep == wpc = "search" /\ wpc' = "append"

\* C21 as stated: every move the engine worker pushes is pushed with Black
\* to move and is a legal move of the position the board holds at that moment
C21_EnginePlaysLegalBlackMove ==
    [][EnginePushStep =>
          /\ turn(board) = BLACK
          /\ \E m \in Range(legal_moves(board)) : board' = push(board, m)]_vars

\* the chess.Move behind an entry of the board's move stack
MoveOf(m) == IF m > MaxMoves THEN m - MaxMoves ELSE m

\* board.move_stack as a list of chess.Move
MoveStack == [i \in 1 .. Len(board) |-> MoveOf(board[i])]

\* C22 as stated: at the start of an event-loop iteration with no engine
\* worker running, move_history is the board's move stack
C22_HistoryMirrorsBoard ==
    (mpc = "idle" /\ wpc = "off") => move_history = MoveStack

(* ==================== alphabeta and alphabeta_simple =================== *)
Searches == {"alphabeta", "alphabeta_simple"}
LeafEvaluators == {"evaluate_board", "evaluate_simple"}

\* the leaf evaluator ev on the position b
LeafScore(ev, b) == IF ev = "evaluate_board" THEN evaluate_board(b) ELSE evaluate_simple(b)

\* the update of a node after board.pop(), by the search sr
FoldBy(sr, f, score) ==
    IF sr = "alphabeta"
    THEN (IF f.maximizing THEN MaxFold(f, score) ELSE MinFold(f, score))
    ELSE (IF f.maximizing THEN MaxFoldSimple(f, score) ELSE MinFoldSimple(f, score))

\* the search sr run on b with the leaf evaluator ev: the (score, move) it
\* returns and the positions it was called on, in the order of the calls
RECURSIVE SearchBy(_, _, _, _, _, _, _)
RECURSIVE LoopBy(_, _, _, _, _)
LoopBy(sr, ev, b, f, visited) ==
    IF f.pc = "break" \/ f.i > Len(f.moves)
    THEN [score |-> f.value, move |-> f.best_move, visited |-> visited]
    ELSE LET child == SearchBy(sr, ev, push(b, f.moves[f.i]), f.depth - 1,
                               f.alpha, f.beta, ~f.maximizing)
         IN  LoopBy(sr, ev, b, FoldBy(sr, f, child.score), visited \o child.visited)
SearchBy(sr, ev, b, depth, alpha, beta, maximizing) ==
    IF IsLeaf(b, depth)
    THEN [score |-> LeafScore(ev, b), move |-> None, visited |-> <<b>>]
    ELSE LoopBy(sr, ev, b, [NewFrame(depth, alpha, beta, maximizing) EXCEPT
                                !.moves = OrderedMoves(b),
                                !.node = b,
                                !.value = InitialValue(maximizing),
                                !.i = 1,
                                !.pc = "loop"], <<b>>)

\* the values alpha and beta start from
WindowEnds == {0 - INF, 0 - 1, 0, 1, INF}

\* C24: on the same tree, with the same leaf evaluator, depth, alpha, beta
\* and maximizing, alphabeta_simple and alphabeta are called on the same
\* positions in the same order and return the same (score, move); the run
\* of alphabeta that just ended is the one alphabeta_simple would have made
C24_SearchesAgree ==
    (Done /\ req.depth >= 0) =>
        /\ \A ev \in LeafEvaluators, alpha \in WindowEnds, beta \in WindowEnds,
              maximizing \in BOOLEAN :
               SearchBy("alphabeta_simple", ev, Root, req.depth, alpha, beta, maximizing)
                 = SearchBy("alphabeta", ev, Root, req.depth, alpha, beta, maximizing)
        /\ LET simple == SearchBy("alphabeta_simple", "evaluate_board", Root, req.depth,
                                  0 - INF, INF, RootMax)
           IN  /\ simple.score = result.score
               /\ simple.move = result.move
               /\ Len(simple.visited) = ncall

\* a search that pruned and whose maximizing root got, for its second move,
\* a score below the running best: there max(alpha, eval_score) and
\* max(alpha, value) are given different numbers
C24_Witness ==
    /\ Done /\ req.depth = MaxDepth /\ Pruned /\ RootMax
    /\ Len(OrderedMoves(Root)) >= 2
    /\ LET ms     == OrderedMoves(Root)
           first  == SearchBy("alphabeta_simple", "evaluate_board", push(Root, ms[1]),
                              req.depth - 1, 0 - INF, INF, FALSE).score
           second == SearchBy("alphabeta_simple", "evaluate_board", push(Root, ms[2]),
                              req.depth - 1, first, INF, FALSE).score
       IN  second < first

(* ===================== properties of the evaluator ===================== *)
\* C11: evaluate_board and evaluate_simple never change the board they are
\* given: during and after the call its placement, side to move and move
\* stack are those of the call, and the turn override lands on the copy
C11_EvaluateKeepsBoard ==
    /\ epc # "idle" => heap.board = board_before
    /\ epc \in {"white", "black", "sum"} => board_copy = "copy"
    /\ epc = "sum" => (heap.copy.turn = BLACK /\ heap.board.turn = board_before.turn)

C11_Witness ==
    /\ epc = "done" /\ board_before.turn = WHITE
    /\ white_moves > 0 /\ black_moves > 0

\* C15: evaluate_board of the standard starting position is 0: material and
\* piece-square sums cancel and both sides have the same mobility count
C15_StartEvaluatesToZero ==
    (epc = "done" /\ evaluator = "evaluate_board" /\ board_before = StartBoard) =>
        /\ static_score = 0
        /\ material = 0
        /\ pst_score = 0
        /\ white_moves = black_moves

C15_Witness ==
    /\ epc = "done" /\ evaluator = "evaluate_board" /\ board_before = StartBoard
    /\ white_moves = 20 /\ black_moves = 20

\* pieces of one colour on the board
CountOf(b, color) == Cardinality({sq \in Squares : IsOwn(b.placement, sq, color)})

\* exactly one king and at most sixteen pieces on each side
OneKingEach(b) ==
    \A color \in {WHITE, BLACK} :
        /\ Cardinality(pieces(b, KING, color)) = 1
        /\ CountOf(b, color) <= 16

\* the largest value of a piece that is no king, the largest entry of PST in
\* absolute value, and the most squares one piece can move to
MaxPieceValue == SetMax({PIECE_VALUES(pt) : pt \in PAWN .. QUEEN})
MaxAbsPst == SetMax({Abs(PST(pt)[i]) : pt \in PAWN .. KING, i \in 1 .. 64})
MaxTargets ==
    SetMax({Cardinality(Targets([s \in Squares |-> IF s = sq THEN pt ELSE 0], sq, WHITE)) :
               pt \in KNIGHT .. KING, sq \in Squares})

\* C23: on a position with one king and at most sixteen pieces a side that
\* is no checkmate, |evaluate_board| < 999999: the kings cancel, material is
\* at most fifteen queens, and the piece-square and mobility terms are small
C23_ScoreBelowMate ==
    (/\ epc = "done" /\ evaluator = "evaluate_board"
     /\ OneKingEach(board_before) /\ ~IsCheckmateAt(board_before)) =>
        /\ Abs(static_score) < MATE
        /\ Abs(material) <= 15 * MaxPieceValue
        /\ Abs(pst_score) <= 32 * MaxAbsPst
        /\ white_moves <= 16 * MaxTargets /\ black_moves <= 16 * MaxTargets
        /\ 15 * MaxPieceValue + 32 * MaxAbsPst + 10 * 16 * MaxTargets < MATE

C23_Witness ==
    /\ epc = "done" /\ evaluator = "evaluate_board"
    /\ board_before = QueensBoard
    /\ material = 15 * MaxPieceValue
    /\ static_score > material

====
